---- MODULE Spec2Model ----
(***************************************************************************)
(* Model of the front-end components of the site:                          *)
(*   - HeaderParticlesComponent (src/app/header-particles.component.ts):   *)
(*     the lifecycle adapter around the tsParticles engine;                *)
(*   - NavigationComponent                                                 *)
(*     (src/app/components/navigation/navigation.component.ts):            *)
(*     the scroll-synced navigation bar.                                   *)
(* The browser is single threaded: each action below is one event handler  *)
(* or one continuation of an async function, run to its next await.        *)
(***************************************************************************)
EXTENDS Integers, Sequences, FiniteSets, TLC

----------------------------------------------------------------------------
(* Bounds of the model (not program constants).                            *)

\* how many times the host may invoke ngAfterViewInit
MaxViewInit == 2
\* how many times the host may invoke HeaderParticlesComponent.ngOnDestroy
MaxTeardown == 2
\* how many window:resize events are delivered to the particles component
MaxResize == 3
\* how many window:scroll events are delivered to the navigation component
MaxScroll == 3
\* how many times the engine calls each rocker updater on the particle
MaxUpdates == 4
\* how many carousel operations (calls of the public methods and interval
\* callbacks) the services carousel performs
MaxServiceOps == 5

----------------------------------------------------------------------------
(* HeaderParticlesComponent                                                *)

VARIABLES
    isBrowser,      \* isPlatformBrowser(this.platformId)
    container,      \* this.container: 0 is null, n > 0 is engine instance n
    initPromise,    \* this.initPromise: "null", "pending" or "settled"
    destroyed,      \* this.destroyed
    resizeRaf,      \* this.resizeRaf: 0 is null, n > 0 is a RAF handle
    pc,             \* the await the async function of ngAfterViewInit is
                    \* suspended at: "idle", a step of InitSteps,
                    \* "tsParticles.load" or "done"
    engines,        \* the engine instances tsParticles.load has produced
    rafQueue,       \* RAF handles whose callback the browser still holds
    nextRaf,        \* next handle requestAnimationFrame returns
    hist            \* observations: calls made on the environment

partVars == <<isBrowser, container, initPromise, destroyed, resizeRaf, pc,
              engines, rafQueue, nextRaf, hist>>

(* NavigationComponent and the window/document it reads                    *)
VARIABLES
    navigationItems,        \* this.navigationItems, in order
    isMobileMenuOpen,       \* this.isMobileMenuOpen
    currentActiveSection,   \* this.currentActiveSection
    scrollThrottle,         \* this.scrollThrottle: 0 is undefined, else a
                            \* timer id
    timers,                 \* pending setTimeout timers: [id, due], due the
                            \* milliseconds left before the callback runs
    nextTimer,              \* next id setTimeout returns
    scrollY,                \* window.scrollY
    innerHeight,            \* window.innerHeight
    dom,                    \* the section elements of the document
    navPhase,               \* "created", "live" (after ngOnInit), "destroyed"
    nav                     \* observations on the navigation component

navVars == <<navigationItems, isMobileMenuOpen, currentActiveSection,
             scrollThrottle, timers, nextTimer, scrollY, innerHeight, dom,
             navPhase, nav>>

(* A particle as the two rocker updaters of enableFeatures see it           *)
VARIABLES
    shapeData,      \* p.shapeData: the image options with their optional
                    \* rockerSmooth and rockerStep blocks
    rock,           \* p.__rock: << >> while absent, else <<t>>, t in
                    \* thousandths of a second
    rockStep,       \* p.__rockStep: << >> while absent, else <<t>>
    rotation,       \* p.rotation: << >> while never written by an updater,
                    \* else <<x, y>> for (x + y * sqrt(3)) / 4 degrees, in
                    \* radians (times PI / 180)
    rk              \* observations on the updater calls

rockVars == <<shapeData, rock, rockStep, rotation, rk>>

(* AppComponent: the hero fade and the services carousel                    *)
VARIABLES
    isHeroVisible,          \* this.isHeroVisible
    heroOpacity,            \* this.heroOpacity as the fraction <<num, den>>
    currentServiceIndex,    \* this.currentServiceIndex
    isServicesAutoPlay,     \* this.isServicesAutoPlay
    servicesInterval,       \* this.servicesInterval: 0 is undefined, else the
                            \* id setInterval returned
    intervals,              \* ids of the interval timers that are live
    nextInterval,           \* next id setInterval returns
    appPhase,               \* "created", "live" (after ngOnInit), "destroyed"
    car                     \* observations on the carousel operations

appVars == <<isHeroVisible, heroOpacity, currentServiceIndex,
             isServicesAutoPlay, servicesInterval, intervals, nextInterval,
             appPhase, car>>

vars == <<partVars, navVars, rockVars, appVars>>

\* what the handlers of each component leave alone
notPart == <<navVars, rockVars, appVars>>
notNav == <<partVars, rockVars, appVars>>
notRock == <<partVars, navVars, appVars>>
\* AppComponent reads window.scrollY and window.innerHeight and writes
\* nothing outside its own fields
notApp == <<partVars, rockVars, navigationItems, isMobileMenuOpen,
            currentActiveSection, scrollThrottle, timers, nextTimer, dom,
            navPhase, nav>>

\* The awaits of the async function before tsParticles.load, in order
\* (the last two are the awaits of enableFeatures).
InitSteps ==
    << "loadBasic", "loadImageShape", "loadExternalPushInteraction",
       "loadExternalRepulseInteraction", "loadParticlesLinksInteraction",
       "rockerSmooth", "rockerStep" >>

IsStep(p) == \E i \in 1..Len(InitSteps) : InitSteps[i] = p
StepNo(p) == CHOOSE i \in 1..Len(InitSteps) : InitSteps[i] = p

\* A fresh engine instance as tsParticles.load hands it out.
NewEngine == [play |-> 0, stop |-> 0, destroy |-> 0, refresh |-> 0]

\* Calling method m on engine instance c (no-op on null: the ?. operator).
Call(es, c, m) ==
    IF c = 0 THEN es ELSE [es EXCEPT ![c][m] = @ + 1]

HistInit ==
    [ viewInitCalls |-> 0,      \* invocations of ngAfterViewInit
      initStarts    |-> 0,      \* times the init sequence was started
      loadCalls     |-> 0,      \* calls of tsParticles.load
      stepsDone     |-> {},     \* awaits of InitSteps that have resolved
      loadIssuedAt  |-> {},     \* stepsDone at each call of tsParticles.load
      teardownCalls |-> 0,      \* invocations of ngOnDestroy
      teardownPc    |-> "never", \* pc at the first ngOnDestroy
      resizeCalls   |-> 0,      \* invocations of onWindowResized
      lastResize    |-> "none", \* what the last onWindowResized did
      cancelCalls   |-> 0,      \* calls of cancelAnimationFrame
      errors        |-> 0,      \* console.error calls
      uncaught      |-> FALSE,  \* an exception escaped a lifecycle hook
      releaseThrew  |-> FALSE,  \* stop() or destroy() threw in ngOnDestroy
      frameRefresh  |-> 0,      \* refresh() calls made in the last frame
      result        |-> "none", \* what initPromise resolved to
      outcome       |-> "none", \* how construction ended: "rejected" (an
                                \* await threw), "undefined" or "instance"
                                \* (what tsParticles.load resolved to)
      teardownDestroys |-> 0,   \* destroy() calls made by ngOnDestroy
      stopThrew     |-> FALSE   \* stop() threw in ngOnDestroy (line 303)
    ]

\* The fields of a newly constructed HeaderParticlesComponent, lines 43-46.
PartFields ==
    /\ container = 0
    /\ initPromise = "null"
    /\ destroyed = FALSE
    /\ resizeRaf = 0
    /\ pc = "idle"
    /\ engines = << >>
    /\ rafQueue = {}
    /\ nextRaf = 1
    /\ hist = HistInit

PartInit ==
    /\ isBrowser \in BOOLEAN
    /\ PartFields

\* line 116: the hook does nothing outside a browser
NotBrowser(b) == ~b

\* Variant of AlreadyInitialising: the re-entry guard is missing.
AlreadyInitialising_never(p) == FALSE

\* line 118: the re-entry guard of ngAfterViewInit
AlreadyInitialising(p) == p # "null"

\* ngAfterViewInit, lines 115-122: the hook up to its first await.  The async
\* function passed to runOutsideAngular runs synchronously up to
\* "await loadBasic(...)" and its promise is stored in initPromise before any
\* other handler can run.
ngAfterViewInit ==
    /\ hist.viewInitCalls < MaxViewInit
    /\ IF NotBrowser(isBrowser) \/ AlreadyInitialising(initPromise)
       THEN /\ hist' = [hist EXCEPT !.viewInitCalls = @ + 1]
            /\ UNCHANGED <<initPromise, pc>>
       ELSE /\ initPromise' = "pending"
            /\ pc' = InitSteps[1]
            /\ hist' = [hist EXCEPT !.viewInitCalls = @ + 1,
                                    !.initStarts = @ + 1]
    /\ UNCHANGED <<isBrowser, container, destroyed, resizeRaf, engines,
                   rafQueue, nextRaf>>
    /\ UNCHANGED notPart

\* The async function returns v ("null" or "instance"): initPromise settles.
Settle(h, v) == [h EXCEPT !.result = v]

\* Variant of Caught: the error is swallowed without being logged.
Caught_silent(h) == [h EXCEPT !.result = "null"]

\* The catch block, lines 261-264: log and resolve to null.
Caught(h) == [h EXCEPT !.errors = @ + 1, !.result = "null"]

\* line 130: "abort early" before the construction request
AbortEarly(d) == d

\* Variant of AwaitsBeforeLoad: enableFeatures() is called without await.
AwaitsBeforeLoad_noEnable == Len(InitSteps) - 2

\* lines 122-127: the number of awaits that precede the construction request
AwaitsBeforeLoad == Len(InitSteps)

\* One of the awaits of lines 122-127 resolves.  After the last one the
\* function checks destroyed (line 130) and issues tsParticles.load (line 132).
StepResolve ==
    /\ IsStep(pc)
    /\ LET h == [hist EXCEPT !.stepsDone = @ \cup {pc}] IN
       IF StepNo(pc) < AwaitsBeforeLoad
       THEN /\ pc' = InitSteps[StepNo(pc) + 1]
            /\ hist' = h
            /\ UNCHANGED initPromise
       ELSE IF AbortEarly(destroyed)
       THEN /\ pc' = "done"
            /\ initPromise' = "settled"
            /\ hist' = Settle(h, "null")
       ELSE /\ pc' = "tsParticles.load"
            /\ hist' = [h EXCEPT !.loadCalls = @ + 1,
                                 !.loadIssuedAt = @ \cup {h.stepsDone}]
            /\ UNCHANGED initPromise
    /\ UNCHANGED <<isBrowser, container, destroyed, resizeRaf, engines,
                   rafQueue, nextRaf>>
    /\ UNCHANGED notPart

\* One of the awaits of lines 122-127, or tsParticles.load, rejects: the
\* catch block of lines 261-264 runs.
AwaitReject ==
    /\ IsStep(pc) \/ pc = "tsParticles.load"
    /\ pc' = "done"
    /\ initPromise' = "settled"
    /\ hist' = [Caught(hist) EXCEPT !.outcome = "rejected"]
    /\ UNCHANGED <<isBrowser, container, destroyed, resizeRaf, engines,
                   rafQueue, nextRaf>>
    /\ UNCHANGED notPart

\* Variant of AfterLoad: a destroyed component drops the instance without
\* releasing it.
AfterLoad_leak(es, cur, d, c, playThrows, destroyThrows) ==
    IF d
    THEN [ engines |-> es, container |-> cur, threw |-> FALSE,
           value |-> "null" ]
    ELSE [ engines   |-> Call(es, c, "play"),
           container |-> c,
           threw     |-> (c # 0 /\ playThrows),
           value     |-> IF c = 0 THEN "null" ELSE "instance" ]

\* Variant of AfterLoad: destroyed is not checked after the await.
AfterLoad_noCheck(es, cur, d, c, playThrows, destroyThrows) ==
    [ engines   |-> Call(es, c, "play"),
      container |-> c,
      threw     |-> (c # 0 /\ playThrows),
      value     |-> IF c = 0 THEN "null" ELSE "instance" ]

\* Variant of AfterLoad: the instance is stored and started before destroyed
\* is looked at.
AfterLoad_playThenCheck(es, cur, d, c, playThrows, destroyThrows) ==
    IF d
    THEN [ engines   |-> Call(Call(es, c, "play"), c, "destroy"),
           container |-> cur,
           threw     |-> (c # 0 /\ (playThrows \/ destroyThrows)),
           value     |-> "null" ]
    ELSE [ engines   |-> Call(es, c, "play"),
           container |-> c,
           threw     |-> (c # 0 /\ playThrows),
           value     |-> IF c = 0 THEN "null" ELSE "instance" ]

\* Lines 251-260, the continuation after "await tsParticles.load(...)".
\* c is the value load resolved to (0 for undefined, else the new instance),
\* es the engine instances including it; playThrows/destroyThrows say
\* whether the engine's play()/destroy() throws.  The result gives the new
\* engines, the new this.container and the value returned.
AfterLoad(es, cur, d, c, playThrows, destroyThrows) ==
    IF d
    THEN [ engines   |-> Call(es, c, "destroy"),
           container |-> cur,
           threw     |-> (c # 0 /\ destroyThrows),
           value     |-> "null" ]
    ELSE [ engines   |-> Call(es, c, "play"),
           container |-> c,
           threw     |-> (c # 0 /\ playThrows),
           value     |-> IF c = 0 THEN "null" ELSE "instance" ]

\* tsParticles.load resolves, with a new instance or with undefined.
LoadResolve ==
    /\ pc = "tsParticles.load"
    /\ \E gotInstance \in BOOLEAN, playThrows \in BOOLEAN,
          destroyThrows \in BOOLEAN :
         LET es == IF gotInstance THEN Append(engines, NewEngine) ELSE engines
             c  == IF gotInstance THEN Len(es) ELSE 0
             r  == AfterLoad(es, container, destroyed, c, playThrows,
                             destroyThrows)
         IN  /\ engines' = r.engines
             /\ container' = r.container
             /\ hist' = [(IF r.threw THEN Caught(hist)
                                      ELSE Settle(hist, r.value))
                           EXCEPT !.outcome = IF gotInstance THEN "instance"
                                              ELSE "undefined"]
    /\ pc' = "done"
    /\ initPromise' = "settled"
    /\ UNCHANGED <<isBrowser, destroyed, resizeRaf, rafQueue, nextRaf>>
    /\ UNCHANGED notPart

\* Variant of RefreshPending: every resize schedules a frame callback.
RefreshPending_never(r) == FALSE

\* line 278: a refresh is already scheduled for the next frame
RefreshPending(r) == r # 0

\* Variant of NoContainer: the missing instance is not checked.
NoContainer_never(c) == FALSE

\* line 277: no engine instance is stored
NoContainer(c) == c = 0

\* onWindowResized, lines 274-286.
onWindowResized ==
    /\ hist.resizeCalls < MaxResize
    /\ IF NoContainer(container)
       THEN /\ hist' = [hist EXCEPT !.resizeCalls = @ + 1,
                                    !.lastResize = "noContainer"]
            /\ UNCHANGED <<resizeRaf, rafQueue, nextRaf>>
       ELSE IF RefreshPending(resizeRaf)
       THEN /\ hist' = [hist EXCEPT !.resizeCalls = @ + 1,
                                    !.lastResize = "pending"]
            /\ UNCHANGED <<resizeRaf, rafQueue, nextRaf>>
       ELSE /\ resizeRaf' = nextRaf
            /\ rafQueue' = rafQueue \cup {nextRaf}
            /\ nextRaf' = nextRaf + 1
            /\ hist' = [hist EXCEPT !.resizeCalls = @ + 1,
                                    !.lastResize = "scheduled"]
    /\ UNCHANGED <<isBrowser, container, initPromise, destroyed, pc, engines>>
    /\ UNCHANGED notPart

\* The browser renders a frame and runs every callback it holds, lines
\* 281-284: each clears resizeRaf and refreshes the container.
AnimationFrame ==
    /\ rafQueue # {}
    /\ resizeRaf' = 0
    /\ rafQueue' = {}
    /\ LET n == IF container = 0 THEN 0 ELSE Cardinality(rafQueue) IN
         /\ engines' = IF container = 0 THEN engines
                       ELSE [engines EXCEPT ![container].refresh = @ + n]
         /\ hist' = [hist EXCEPT !.frameRefresh = n]
    /\ UNCHANGED <<isBrowser, container, initPromise, destroyed, pc, nextRaf>>
    /\ UNCHANGED notPart

\* Variant of Release: no finally block, the reference is kept.
Release_keep(es, c, stopThrows, destroyThrows) ==
    LET es1 == Call(es, c, "stop")
        es2 == IF c # 0 /\ stopThrows THEN es1 ELSE Call(es1, c, "destroy")
    IN  [ engines   |-> es2,
          container |-> c,
          threw     |-> (c # 0 /\ (stopThrows \/ destroyThrows)),
          escaped   |-> FALSE ]

\* Variant of Release: no catch block, the exception leaves ngOnDestroy.
Release_noCatch(es, c, stopThrows, destroyThrows) ==
    LET es1 == Call(es, c, "stop")
        es2 == IF c # 0 /\ stopThrows THEN es1 ELSE Call(es1, c, "destroy")
    IN  [ engines   |-> es2,
          container |-> 0,
          threw     |-> (c # 0 /\ (stopThrows \/ destroyThrows)),
          escaped   |-> (c # 0 /\ (stopThrows \/ destroyThrows)) ]

\* Variant of Release: the instance is stopped but never destroyed.
Release_stopOnly(es, c, stopThrows, destroyThrows) ==
    [ engines   |-> Call(es, c, "stop"),
      container |-> 0,
      threw     |-> (c # 0 /\ stopThrows),
      escaped   |-> FALSE ]

\* The try/catch/finally of ngOnDestroy, lines 302-309, on container c.
Release(es, c, stopThrows, destroyThrows) ==
    LET es1 == Call(es, c, "stop")
        es2 == IF c # 0 /\ stopThrows THEN es1 ELSE Call(es1, c, "destroy")
    IN  [ engines   |-> es2,
          container |-> 0,                       \* finally, line 308
          threw     |-> (c # 0 /\ (stopThrows \/ destroyThrows)),
          escaped   |-> FALSE ]                  \* catch, lines 305-307

\* Variant of CancelPending: resizeRaf is cleared without
\* cancelAnimationFrame.
CancelPending_forgotten(q, r) == q

\* lines 296-299: the callbacks the browser holds after the pending one, if
\* any, was cancelled.
CancelPending(q, r) == IF r # 0 THEN q \ {r} ELSE q

\* ngOnDestroy, lines 292-312.
ngOnDestroy ==
    /\ hist.teardownCalls < MaxTeardown
    /\ destroyed' = TRUE
    /\ resizeRaf' = 0
    /\ rafQueue' = CancelPending(rafQueue, resizeRaf)
    /\ \E stopThrows \in BOOLEAN, destroyThrows \in BOOLEAN :
         LET r == Release(engines, container, stopThrows, destroyThrows) IN
           /\ engines' = r.engines
           /\ container' = r.container
           /\ hist' = [hist EXCEPT
                 !.teardownCalls = @ + 1,
                 !.teardownPc = IF @ = "never" THEN pc ELSE @,
                 !.cancelCalls = IF resizeRaf # 0 THEN @ + 1 ELSE @,
                 !.releaseThrew = @ \/ r.threw,
                 !.stopThrew = @ \/ (container # 0 /\ stopThrows),
                 !.teardownDestroys =
                     IF container = 0 THEN @
                     ELSE @ + r.engines[container].destroy
                            - engines[container].destroy,
                 !.uncaught = @ \/ r.escaped]
    /\ UNCHANGED <<isBrowser, initPromise, pc, nextRaf>>
    /\ UNCHANGED notPart

----------------------------------------------------------------------------
(* NavigationComponent                                                     *)

\* line 152: below this scroll offset the active section is "top"
TopThreshold == 100
\* line 75: the delay of the scroll timer, in milliseconds
ScrollDelay == 100

\* lines 157-161: the tracked sections, in the order they are scanned
Sections == << "gallery-section", "services-section", "about-me-section" >>

\* lines 21-26: the scrollTarget of the navigation items, in order
Targets == << "top", "gallery-section", "services-section",
              "about-me-section" >>

\* An element of the document for a section name: sel is the first of the
\* selectors "#name", ".name", "name" that matches an element ("none" when
\* none does); top and height are its document-relative bounds
\* (getBoundingClientRect().top + scrollY, and .height).
El(sel, top, height) == [sel |-> sel, top |-> top, height |-> height]
NoEl == El("none", 0, 0)

\* A document: the elements for the three section names.
Doc(g, v, a) ==
    [s \in {Sections[i] : i \in 1..Len(Sections)} |->
       CASE s = "gallery-section"  -> g
         [] s = "services-section" -> v
         [] OTHER                  -> a]

\* The documents the component is run against: the three sections one after
\* the other, two sections overlapping, sections missing, and sections that
\* only a class or tag selector finds.
Doms ==
    { Doc(El("id", 100, 400), El("id", 500, 400), El("id", 900, 400)),
      Doc(El("id", 100, 400), El("id", 300, 400), El("id", 900, 400)),
      Doc(NoEl,               El("id", 300, 400), El("class", 900, 400)),
      Doc(El("tag", 100, 400), NoEl,              El("id", 900, 400)),
      Doc(El("id", 100, 400), NoEl,               El("class", 900, 400)),
      Doc(NoEl,               NoEl,               NoEl) }

\* The scroll offsets the window is scrolled to.
ScrollYs == { 0, 99, 100, 400, 800 }
\* The heights of the window.
InnerHeights == { 200, 301 }
\* The amounts of time, in milliseconds, that pass between two events.
TickSteps == { 50 }

NavObsInit ==
    [ op       |-> "none",  \* the handler that ran last
      target   |-> "",      \* onNavigationClick: the item's scrollTarget
      found    |-> FALSE,   \* onNavigationClick: the target was resolved
      warned   |-> FALSE,   \* onNavigationClick: console.warn was called
      before   |-> "",      \* currentActiveSection when the handler started
      setCalls |-> 0,       \* setActiveSection calls made by the handler
      since    |-> -1,      \* ms since the last scroll event (-1: none yet)
      burst    |-> 0,       \* scroll events of the current burst (each less
                            \* than ScrollDelay ms after the previous one)
      runs     |-> 0,       \* timer runs of updateActiveSection since then
      updates  |-> 0        \* setActiveSection calls of those runs
    ]

\* The fields of a newly constructed NavigationComponent, lines 21-42.
NavFields ==
    /\ navigationItems =
         [i \in 1..Len(Targets) |->
            [scrollTarget |-> Targets[i], isActive |-> FALSE]]
    /\ isMobileMenuOpen = FALSE
    /\ currentActiveSection = "top"
    /\ scrollThrottle = 0
    /\ timers = {}
    /\ nextTimer = 1
    /\ navPhase = "created"
    /\ nav = NavObsInit

NavInit ==
    /\ NavFields
    /\ scrollY \in ScrollYs
    /\ innerHeight \in InnerHeights
    /\ dom \in Doms

\* Variant of setActiveSection: the matching item is set, the others are
\* not cleared.
setActiveSection_onlySet(items, sectionId) ==
    [i \in DOMAIN items |->
       [items[i] EXCEPT !.isActive =
          (@ \/ items[i].scrollTarget = sectionId)]]

\* setActiveSection, lines 190-197: the items after the call.
setActiveSection(items, sectionId) ==
    [i \in DOMAIN items |->
       [items[i] EXCEPT !.isActive = (items[i].scrollTarget = sectionId)]]

\* Variant of InView: the bounds are taken exclusive.
InView_exclusive(e, y, h) ==
    /\ 2 * y + h > 2 * e.top
    /\ 2 * y + h < 2 * (e.top + e.height)

\* lines 169-173: the viewport middle (y + h/2) lies within the bounds of
\* element e; both sides are doubled to keep the arithmetic in integers.
InView(e, y, h) ==
    /\ 2 * y + h >= 2 * e.top
    /\ 2 * y + h <= 2 * (e.top + e.height)

\* lines 164-178: the first section from position i on whose element exists
\* and contains the viewport middle, "top" when there is none.
RECURSIVE FindSection(_, _, _, _)
FindSection(d, y, h, i) ==
    IF i > Len(Sections) THEN "top"
    ELSE IF d[Sections[i]].sel = "id" /\ InView(d[Sections[i]], y, h)
         THEN Sections[i]
         ELSE FindSection(d, y, h, i + 1)

\* Variant of AtTop: the threshold is one too low.
AtTop_offByOne(y) == y < TopThreshold - 1

\* line 152: "at the very top"
AtTop(y) == y < TopThreshold

\* Variant of updateActiveSection: setActiveSection is called whether or not
\* the section changed.
updateActiveSection_always(cur, items, d, y, h) ==
    LET activeSection == IF AtTop(y) THEN "top" ELSE FindSection(d, y, h, 1)
    IN  [cur |-> activeSection,
         items |-> setActiveSection(items, activeSection), calls |-> 1]

\* updateActiveSection, lines 148-184: the new currentActiveSection and
\* items, and the number of setActiveSection calls made.
updateActiveSection(cur, items, d, y, h) ==
    IF AtTop(y)
    THEN [cur |-> "top", items |-> setActiveSection(items, "top"), calls |-> 1]
    ELSE LET activeSection == FindSection(d, y, h, 1) IN
         IF activeSection # cur
         THEN [cur |-> activeSection,
               items |-> setActiveSection(items, activeSection), calls |-> 1]
         ELSE [cur |-> cur, items |-> items, calls |-> 0]

\* ngOnInit, lines 48-51.
Nav_ngOnInit ==
    /\ navPhase = "created"
    /\ navPhase' = "live"
    /\ LET r == updateActiveSection(currentActiveSection, navigationItems,
                                    dom, scrollY, innerHeight) IN
         /\ currentActiveSection' = r.cur
         /\ navigationItems' = r.items
         /\ nav' = [nav EXCEPT !.op = "init", !.before = currentActiveSection,
                               !.setCalls = r.calls]
    /\ UNCHANGED <<isMobileMenuOpen, scrollThrottle, timers, nextTimer,
                   scrollY, innerHeight, dom>>
    /\ UNCHANGED notNav

\* clearTimeout(id) on the pending timers ts.
clearTimeout(ts, id) == { t \in ts : t.id # id }

\* Variant of ClearPrevious: the previous timer is left running.
ClearPrevious_never(ts, id) == ts

\* lines 69-71: the pending timers after the handler cleared the previous one.
ClearPrevious(ts, id) == IF id # 0 THEN clearTimeout(ts, id) ELSE ts

\* onWindowScroll, lines 66-76: the window has been scrolled to y.
onWindowScroll ==
    /\ navPhase = "live"
    /\ nextTimer <= MaxScroll
    /\ \E y \in ScrollYs :
         /\ scrollY' = y
         /\ timers' = ClearPrevious(timers, scrollThrottle)
                         \cup {[id |-> nextTimer, due |-> ScrollDelay]}
         /\ scrollThrottle' = nextTimer
         /\ nextTimer' = nextTimer + 1
         /\ nav' = [nav EXCEPT !.op = "scroll", !.before = currentActiveSection,
                               !.since = 0, !.runs = 0, !.updates = 0,
                               !.burst = IF nav.since >= 0
                                            /\ nav.since < ScrollDelay
                                         THEN @ + 1 ELSE 1]
    /\ UNCHANGED <<navigationItems, isMobileMenuOpen, currentActiveSection,
                   innerHeight, dom, navPhase>>
    /\ UNCHANGED notNav

\* Time passes: d milliseconds, no more than the earliest pending timer has
\* left (a timer that is due runs before time moves on).
Elapse ==
    /\ navPhase = "live"
    /\ \E d \in TickSteps :
         /\ \A t \in timers : t.due >= d
         /\ timers # {} \/ (nav.since >= 0 /\ nav.since <= ScrollDelay)
         /\ timers' = { [t EXCEPT !.due = @ - d] : t \in timers }
         /\ nav' = [nav EXCEPT !.since =
                      IF @ < 0 THEN @
                      ELSE IF @ + d > 2 * ScrollDelay THEN 2 * ScrollDelay
                      ELSE @ + d]
    /\ UNCHANGED <<navigationItems, isMobileMenuOpen, currentActiveSection,
                   scrollThrottle, nextTimer, scrollY, innerHeight, dom,
                   navPhase>>
    /\ UNCHANGED notNav

\* A timer set by onWindowScroll is due: its callback, lines 73-75, runs.
TimerFire ==
    /\ \E t \in timers :
         /\ t.due = 0
         /\ timers' = timers \ {t}
    /\ LET r == updateActiveSection(currentActiveSection, navigationItems,
                                    dom, scrollY, innerHeight) IN
         /\ currentActiveSection' = r.cur
         /\ navigationItems' = r.items
         /\ nav' = [nav EXCEPT !.op = "timer", !.before = currentActiveSection,
                               !.setCalls = r.calls,
                               !.runs = @ + 1, !.updates = @ + r.calls]
    /\ UNCHANGED <<isMobileMenuOpen, scrollThrottle, nextTimer, scrollY,
                   innerHeight, dom, navPhase>>
    /\ UNCHANGED notNav

\* toggleMobileMenu, lines 82-84.
toggleMobileMenu ==
    /\ navPhase = "live"
    /\ isMobileMenuOpen' = ~isMobileMenuOpen
    /\ UNCHANGED <<navigationItems, currentActiveSection, scrollThrottle,
                   timers, nextTimer, scrollY, innerHeight, dom, navPhase, nav>>
    /\ UNCHANGED notNav

\* scrollToSection, lines 119-142: TRUE when an element was found (and
\* scrolled into view), FALSE when the warning was logged.
scrollToSection(d, sectionTarget) == d[sectionTarget].sel # "none"

\* Variant of ClickedSection: an unresolved target leaves the section as is.
ClickedSection_ifFound(item, cur, found) ==
    IF found THEN item.scrollTarget ELSE cur

\* lines 110-111: the section the click makes active
ClickedSection(item, cur, found) == item.scrollTarget

\* onNavigationClick, lines 91-112, on item i of navigationItems.
onNavigationClick ==
    /\ navPhase = "live"
    /\ \E i \in DOMAIN navigationItems :
         LET item  == navigationItems[i]
             found == IF item.scrollTarget = "top" THEN TRUE
                      ELSE scrollToSection(dom, item.scrollTarget)
             sec   == ClickedSection(item, currentActiveSection, found)
         IN  /\ isMobileMenuOpen' = FALSE
             /\ currentActiveSection' = sec
             /\ navigationItems' = setActiveSection(navigationItems, sec)
             /\ nav' = [nav EXCEPT !.op = "click",
                                   !.target = item.scrollTarget,
                                   !.found = found, !.warned = ~found,
                                   !.before = currentActiveSection,
                                   !.setCalls = 1]
    /\ UNCHANGED <<scrollThrottle, timers, nextTimer, scrollY, innerHeight,
                   dom, navPhase>>
    /\ UNCHANGED notNav

\* ngOnDestroy, lines 56-60.  Angular removes the host listeners with the
\* component: no handler runs afterwards.
Nav_ngOnDestroy ==
    /\ navPhase = "live"
    /\ navPhase' = "destroyed"
    /\ timers' = ClearPrevious(timers, scrollThrottle)
    /\ nav' = [nav EXCEPT !.op = "destroy"]
    /\ UNCHANGED <<navigationItems, isMobileMenuOpen, currentActiveSection,
                   scrollThrottle, nextTimer, scrollY, innerHeight, dom>>
    /\ UNCHANGED notNav

----------------------------------------------------------------------------
(* The particle updaters registered by enableFeatures                      *)

\* Times (st.t, hold, period) are kept in thousandths of a second, so that
\* "delta.value / 1000" of a delta in whole milliseconds is exact.

\* cfg.f ?? dflt on an options block with optional fields
Get(cfg, f, dflt) == IF f \in DOMAIN cfg THEN cfg[f] ELSE dflt

\* img?.name ?? {}: the options block name of shapeData, empty when absent
Block(sd, name) == IF name \in DOMAIN sd THEN sd[name] ELSE << >>

\* lines 62 and 87: isEnabled, !!shapeData?.name?.enabled
isEnabled(sd, name) == Get(Block(sd, name), "enabled", FALSE)

\* lines 75 and 97: delta.value / 1000, a delta in milliseconds as seconds
\* (in thousandths of a second)
ToSeconds(deltaMs) == deltaMs

\* a number of seconds, in thousandths of a second
Sec(n) == n * 1000

\* The particles the updaters are run on: the image options of the site
\* (line 190), blocks relying on the defaults, disabled blocks, no block.
ShapeDatas ==
    { << >>,
      [rockerSmooth |-> [enabled |-> TRUE, minDeg |-> 0, maxDeg |-> 25,
                         periodSec |-> 3]],
      [rockerSmooth |-> [enabled |-> TRUE]],
      [rockerSmooth |-> [enabled |-> FALSE, periodSec |-> 3]],
      [rockerStep |-> [enabled |-> TRUE]],
      [rockerStep |-> [enabled |-> TRUE, lowDeg |-> -10, highDeg |-> 10,
                       holdSec |-> 1]],
      [rockerStep |-> [lowDeg |-> 5, highDeg |-> 10]],
      [rockerSmooth |-> [enabled |-> TRUE, minDeg |-> 0, maxDeg |-> 25,
                         periodSec |-> 3],
       rockerStep |-> [enabled |-> TRUE, holdSec |-> 1]] }

\* The frame deltas, in milliseconds, the engine passes to the updaters.
Deltas == { 500, 1000, 3000 }

\* omega * t is a whole number of twelfths of a turn: the times at which the
\* sine is known exactly.
OnGrid(t, period) == (12 * t) % Sec(period) = 0

\* Variant of Twelfths: omega is PI / period.
Twelfths_halfOmega(t, period) == ((6 * t) \div Sec(period)) % 12

\* line 76-77: omega * t for omega = 2 * PI / period, in twelfths of a turn
Twelfths(t, period) == ((12 * t) \div Sec(period)) % 12

\* Math.sin of k twelfths of a turn, as <<a, b>> for (a + b * sqrt(3)) / 2
Sin12(k) ==
    << <<0, 0>>, <<1, 0>>, <<0, 1>>, <<2, 0>>, <<0, 1>>, <<1, 0>>,
       <<0, 0>>, <<-1, 0>>, <<0, -1>>, <<-2, 0>>, <<0, -1>>, <<-1, 0>> >>[k + 1]

\* lines 71-79: center + amp * sin(omega * t) for center = (a0 + a1) / 2 and
\* amp = (a1 - a0) / 2, as <<x, y>> for (x + y * sqrt(3)) / 4 degrees
SmoothRotation(a0, a1, period, t) ==
    LET sin == Sin12(Twelfths(t, period)) IN
    << 2 * (a0 + a1) + (a1 - a0) * sin[1], (a1 - a0) * sin[2] >>

\* line 74: Math.random() * period, among the times the sine is known at
RandomTimes(period) == { t \in 0..(Sec(period) - 1) : OnGrid(t, period) }

\* Variant of StepRotation: the low bound is held up to and including hold.
StepRotation_inclusive(aLow, aHigh, hold, t) ==
    LET cycle == 2 * Sec(hold)
        phase == t % cycle
    IN  << 4 * (IF phase <= Sec(hold) THEN aLow ELSE aHigh), 0 >>

\* lines 99-103: the rotation of the stepped rocker at accumulated time t
StepRotation(aLow, aHigh, hold, t) ==
    LET cycle == 2 * Sec(hold)
        phase == t % cycle
    IN  << 4 * (IF phase < Sec(hold) THEN aLow ELSE aHigh), 0 >>

RkInit ==
    [ last        |-> "none", \* the updater called last
      wrote       |-> FALSE,  \* that call wrote p.rotation
      prev        |-> << >>,  \* p.rotation before that call
      smoothCalls |-> 0,      \* calls of the rockerSmooth updater
      stepCalls   |-> 0,      \* calls of the rockerStep updater
      firstRot    |-> << >>,  \* rotation written by the first smooth update
      firstT      |-> -1,     \* st.t after the first smooth update
      sinceFirst  |-> -1,     \* ms passed to rockerSmooth since its first
                              \* update (-1 before it)
      stepElapsed |-> 0       \* ms passed to rockerStep in all
    ]

\* A particle no updater has touched yet.
RockFields ==
    /\ rock = << >>
    /\ rockStep = << >>
    /\ rotation = << >>
    /\ rk = RkInit

RockInit ==
    /\ shapeData \in ShapeDatas
    /\ RockFields

\* update of the rockerSmooth updater, lines 63-80.
rockerSmooth_update ==
    /\ rk.smoothCalls < MaxUpdates
    /\ \E delta \in Deltas :
         IF ~isEnabled(shapeData, "rockerSmooth")
         THEN /\ rk' = [rk EXCEPT !.last = "smooth", !.wrote = FALSE,
                                  !.prev = rotation, !.smoothCalls = @ + 1]
              /\ UNCHANGED <<rock, rotation>>
         ELSE LET cfg    == Block(shapeData, "rockerSmooth")
                  a0     == Get(cfg, "minDeg", 0)
                  a1     == Get(cfg, "maxDeg", 30)
                  period == Get(cfg, "periodSec", 4)
              IN  \E t0 \in IF rock = << >> THEN RandomTimes(period)
                                            ELSE {rock[1]} :
                    LET t == t0 + ToSeconds(delta) IN
                    /\ OnGrid(t, period)
                    /\ rock' = <<t>>
                    /\ rotation' = SmoothRotation(a0, a1, period, t)
                    /\ rk' = [rk EXCEPT
                          !.last = "smooth", !.wrote = TRUE,
                          !.prev = rotation, !.smoothCalls = @ + 1,
                          !.firstRot = IF rock = << >> THEN rotation' ELSE @,
                          !.firstT = IF rock = << >> THEN t ELSE @,
                          !.sinceFirst = IF rock = << >> THEN 0
                                         ELSE @ + delta]
    /\ UNCHANGED <<shapeData, rockStep>>
    /\ UNCHANGED notRock

\* update of the rockerStep updater, lines 88-104.
rockerStep_update ==
    /\ rk.stepCalls < MaxUpdates
    /\ \E delta \in Deltas :
         IF ~isEnabled(shapeData, "rockerStep")
         THEN /\ rk' = [rk EXCEPT !.last = "step", !.wrote = FALSE,
                                  !.prev = rotation, !.stepCalls = @ + 1]
              /\ UNCHANGED <<rockStep, rotation>>
         ELSE LET cfg   == Block(shapeData, "rockerStep")
                  aLow  == Get(cfg, "lowDeg", 0)
                  aHigh == Get(cfg, "highDeg", 30)
                  hold  == Get(cfg, "holdSec", 2)
                  t0    == IF rockStep = << >> THEN 0 ELSE rockStep[1]
                  t     == t0 + ToSeconds(delta)
              IN  /\ rockStep' = <<t>>
                  /\ rotation' = StepRotation(aLow, aHigh, hold, t)
                  /\ rk' = [rk EXCEPT
                        !.last = "step", !.wrote = TRUE,
                        !.prev = rotation, !.stepCalls = @ + 1,
                        !.stepElapsed = @ + delta]
    /\ UNCHANGED <<shapeData, rock>>
    /\ UNCHANGED notRock

----------------------------------------------------------------------------
(* AppComponent: hero fade and services carousel                           *)

\* this.services, lines 145-167, by id
services == << "stickers", "game-assets", "websites" >>

\* window.scrollY values the page is scrolled to: above the fade, inside
\* it and past it for a viewport 200 high
HeroScrollYs == { 0, 170, 200 }

\* window.scrollY values the page is loaded at (the top, or refreshed
\* mid-scroll)
LoadScrollYs == { 0, 200 }

\* updateHeroVisibility, lines 68-84, for scroll offset y and viewport height
\* h: the fade starts at 0.8 * h and ends at h; in between the opacity is
\* 1 - (y - 0.8 * h) / (h - 0.8 * h), that is 5 * (h - y) / h.
updateHeroVisibility(y, h) ==
    IF 5 * y <= 4 * h
    THEN [ heroOpacity |-> << 1, 1 >>, isHeroVisible |-> TRUE ]
    ELSE IF y >= h
    THEN [ heroOpacity |-> << 0, 1 >>, isHeroVisible |-> FALSE ]
    ELSE [ heroOpacity |-> << 5 * (h - y), h >>, isHeroVisible |-> TRUE ]

CarObsInit ==
    [ ops     |-> 0,        \* carousel operations performed
      op      |-> "none",   \* the last operation: "goTo", "previous",
                            \* "next", "tick" (interval callback), "toggle"
      before  |-> 0,        \* currentServiceIndex before the last operation
      op2     |-> "none",   \* the operation before the last
      before2 |-> 0 ]       \* currentServiceIndex before that one

\* The fields of a newly constructed AppComponent, lines 26, 32, 169-171.
AppFields ==
    /\ isHeroVisible = TRUE
    /\ heroOpacity = << 1, 1 >>
    /\ currentServiceIndex = 0
    /\ isServicesAutoPlay = TRUE
    /\ servicesInterval = 0
    /\ intervals = {}
    /\ nextInterval = 1
    /\ appPhase = "created"
    /\ car = CarObsInit

\* The timer state the carousel methods work on.
TimerState == [ servicesInterval |-> servicesInterval,
                intervals        |-> intervals,
                nextInterval     |-> nextInterval ]

\* clearInterval(id): no effect when no live timer has that id
clearInterval(ivs, id) == ivs \ {id}

\* startServicesAutoPlay, lines 311-317.
startServicesAutoPlay(st, autoPlay) ==
    IF autoPlay
    THEN [ servicesInterval |-> st.nextInterval,
           intervals        |-> st.intervals \cup {st.nextInterval},
           nextInterval     |-> st.nextInterval + 1 ]
    ELSE st

\* Variant of resetServicesAutoPlay: the old timer is not cleared.
resetServicesAutoPlay_noClear(st, autoPlay) ==
    startServicesAutoPlay(st, autoPlay)

\* resetServicesAutoPlay, lines 322-327.
resetServicesAutoPlay(st, autoPlay) ==
    startServicesAutoPlay(
        IF st.servicesInterval # 0
        THEN [st EXCEPT !.intervals = clearInterval(@, st.servicesInterval)]
        ELSE st,
        autoPlay)

\* Variant of NextIndex: the last index does not wrap.
NextIndex_noWrap(i, n) == i + 1

\* lines 302-304: the index nextService moves to, n the number of services
NextIndex(i, n) == IF i < n - 1 THEN i + 1 ELSE 0

\* lines 292-294: the index previousService moves to
PreviousIndex(i, n) == IF i > 0 THEN i - 1 ELSE n - 1

\* the observations after operation o
Observed(o) ==
    [ ops     |-> car.ops + 1,
      op      |-> o,
      before  |-> currentServiceIndex,
      op2     |-> car.op,
      before2 |-> car.before ]

\* the timer fields take the values of st
SetTimerState(st) ==
    /\ servicesInterval' = st.servicesInterval
    /\ intervals' = st.intervals
    /\ nextInterval' = st.nextInterval

\* AppComponent.ngOnInit, lines 40-45.
App_ngOnInit ==
    /\ appPhase = "created"
    /\ appPhase' = "live"
    /\ LET v == updateHeroVisibility(scrollY, innerHeight) IN
         /\ heroOpacity' = v.heroOpacity
         /\ isHeroVisible' = v.isHeroVisible
    /\ SetTimerState(startServicesAutoPlay(TimerState, isServicesAutoPlay))
    /\ UNCHANGED <<currentServiceIndex, isServicesAutoPlay, car>>
    /\ UNCHANGED <<scrollY, innerHeight>>
    /\ UNCHANGED notApp

\* AppComponent.onWindowScroll, lines 58-61: the window was scrolled to y.
App_onWindowScroll ==
    /\ appPhase = "live"
    /\ \E y \in HeroScrollYs :
         /\ scrollY' = y
         /\ LET v == updateHeroVisibility(y, innerHeight) IN
              /\ heroOpacity' = v.heroOpacity
              /\ isHeroVisible' = v.isHeroVisible
    /\ UNCHANGED <<currentServiceIndex, isServicesAutoPlay, servicesInterval,
                   intervals, nextInterval, appPhase, car>>
    /\ UNCHANGED innerHeight
    /\ UNCHANGED notApp

\* goToService, lines 283-286: the argument is stored as it is; the
\* indicator dots pass the index of an existing service.
goToService ==
    /\ appPhase = "live"
    /\ car.ops < MaxServiceOps
    /\ \E index \in 0..(Len(services) - 1) :
         currentServiceIndex' = index
    /\ SetTimerState(resetServicesAutoPlay(TimerState, isServicesAutoPlay))
    /\ car' = Observed("goTo")
    /\ UNCHANGED <<isHeroVisible, heroOpacity, isServicesAutoPlay, appPhase>>
    /\ UNCHANGED <<scrollY, innerHeight>>
    /\ UNCHANGED notApp

\* previousService, lines 291-296.
previousService ==
    /\ appPhase = "live"
    /\ car.ops < MaxServiceOps
    /\ currentServiceIndex' =
          PreviousIndex(currentServiceIndex, Len(services))
    /\ SetTimerState(resetServicesAutoPlay(TimerState, isServicesAutoPlay))
    /\ car' = Observed("previous")
    /\ UNCHANGED <<isHeroVisible, heroOpacity, isServicesAutoPlay, appPhase>>
    /\ UNCHANGED <<scrollY, innerHeight>>
    /\ UNCHANGED notApp

\* The body of nextService, lines 301-306, run as operation o.
NextServiceAs(o) ==
    /\ currentServiceIndex' = NextIndex(currentServiceIndex, Len(services))
    /\ SetTimerState(resetServicesAutoPlay(TimerState, isServicesAutoPlay))
    /\ car' = Observed(o)
    /\ UNCHANGED <<isHeroVisible, heroOpacity, isServicesAutoPlay, appPhase>>
    /\ UNCHANGED <<scrollY, innerHeight>>
    /\ UNCHANGED notApp

\* nextService called from the template (the "next" button).
nextService ==
    /\ appPhase = "live"
    /\ car.ops < MaxServiceOps
    /\ NextServiceAs("next")

\* A live interval timer runs its callback, lines 313-315: nextService.
\* The 4000 ms period is left open: a timer may fire whenever it is live,
\* also after ngOnDestroy, which clears nothing.
IntervalTick ==
    /\ car.ops < MaxServiceOps
    /\ \E id \in intervals : NextServiceAs("tick")

\* toggleServicesAutoPlay, lines 332-339.
toggleServicesAutoPlay ==
    /\ appPhase = "live"
    /\ car.ops < MaxServiceOps
    /\ isServicesAutoPlay' = ~isServicesAutoPlay
    /\ IF isServicesAutoPlay'
       THEN SetTimerState(startServicesAutoPlay(TimerState,
                                                isServicesAutoPlay'))
       ELSE IF servicesInterval # 0
       THEN /\ intervals' = clearInterval(intervals, servicesInterval)
            /\ UNCHANGED <<servicesInterval, nextInterval>>
       ELSE UNCHANGED <<servicesInterval, intervals, nextInterval>>
    /\ car' = Observed("toggle")
    /\ UNCHANGED <<isHeroVisible, heroOpacity, currentServiceIndex, appPhase>>
    /\ UNCHANGED <<scrollY, innerHeight>>
    /\ UNCHANGED notApp

\* AppComponent.ngOnDestroy, lines 50-52: an empty body.
App_ngOnDestroy ==
    /\ appPhase = "live"
    /\ appPhase' = "destroyed"
    /\ UNCHANGED <<isHeroVisible, heroOpacity, currentServiceIndex,
                   isServicesAutoPlay, servicesInterval, intervals,
                   nextInterval, car>>
    /\ UNCHANGED <<scrollY, innerHeight>>
    /\ UNCHANGED notApp

----------------------------------------------------------------------------
(* Specifications                                                          *)

\* An AppComponent that is never initialised.
AppAbsent == AppFields

\* A particle the updaters are never called on.
RockAbsent ==
    /\ shapeData = << >>
    /\ RockFields


\* A navigation component that is never created: the particles run alone.
NavAbsent ==
    /\ NavFields
    /\ scrollY = 0
    /\ innerHeight = 200
    /\ dom = Doc(NoEl, NoEl, NoEl)

\* A particles component that is never activated: the navigation runs alone.
PartAbsent ==
    /\ isBrowser = TRUE
    /\ PartFields

\* The hooks and handlers of the particles component are public methods:
\* they stay callable in any order, also after ngOnDestroy.
InitParticles == PartInit /\ NavAbsent /\ RockAbsent /\ AppAbsent

NextParticles ==
    \/ ngAfterViewInit
    \/ StepResolve
    \/ AwaitReject
    \/ LoadResolve
    \/ onWindowResized
    \/ AnimationFrame
    \/ ngOnDestroy

SpecParticles == InitParticles /\ [][NextParticles]_vars

InitNav == PartAbsent /\ NavInit /\ RockAbsent /\ AppAbsent

NextNav ==
    \/ Nav_ngOnInit
    \/ onWindowScroll
    \/ Elapse
    \/ TimerFire
    \/ toggleMobileMenu
    \/ onNavigationClick
    \/ Nav_ngOnDestroy

SpecNav == InitNav /\ [][NextNav]_vars

InitRocker == PartAbsent /\ NavAbsent /\ RockInit /\ AppAbsent

NextRocker ==
    \/ rockerSmooth_update
    \/ rockerStep_update

SpecRocker == InitRocker /\ [][NextRocker]_vars

\* The page is loaded at some scroll offset; no navigation component, no
\* particles.
InitApp ==
    /\ PartAbsent
    /\ NavFields
    /\ scrollY \in LoadScrollYs
    /\ innerHeight = 200
    /\ dom = Doc(NoEl, NoEl, NoEl)
    /\ RockAbsent
    /\ AppFields

NextApp ==
    \/ App_ngOnInit
    \/ App_onWindowScroll
    \/ goToService
    \/ previousService
    \/ nextService
    \/ IntervalTick
    \/ toggleServicesAutoPlay
    \/ App_ngOnDestroy

SpecApp == InitApp /\ [][NextApp]_vars

----------------------------------------------------------------------------
(* Properties of HeaderParticlesComponent, under SpecParticles             *)

\* ngOnDestroy ran before tsParticles.load resolved (or was issued).
TornDownInFlight == hist.teardownPc \notin {"never", "done"}

\* C1 as stated: when ngOnDestroy is invoked strictly before
\* tsParticles.load resolves, the instance load produces, if any, has had
\* stop() and destroy() called on it, and this.container stays null.
C1_StoppedAndReleased ==
    TornDownInFlight =>
        /\ container = 0
        /\ pc = "done" =>
              \A e \in 1..Len(engines) :
                 engines[e].stop >= 1 /\ engines[e].destroy >= 1

\* C1 amended: when ngOnDestroy is invoked strictly before tsParticles.load
\* resolves, the instance load produces, if any, has destroy() called on it
\* exactly once, is never started (no play()) and stop() is not called on it;
\* this.container is null in every later state.
C1_ReleasedNotStarted ==
    TornDownInFlight =>
        /\ container = 0
        /\ pc = "done" =>
              \A e \in 1..Len(engines) :
                 /\ engines[e].destroy = 1
                 /\ engines[e].play = 0
                 /\ engines[e].stop = 0

\* load resolved with an instance after ngOnDestroy had run.
C1_Witness ==
    /\ hist.teardownPc = "tsParticles.load"
    /\ pc = "done"
    /\ Len(engines) = 1
    /\ engines[1].destroy = 1
    /\ hist.result = "null"

\* C2: at most one frame callback is pending at any time (the one resizeRaf
\* names), and a frame performs at most one refresh() however many resize
\* events preceded it.
C2_OneRefreshPerFrame ==
    /\ Cardinality(rafQueue) <= 1
    /\ hist.frameRefresh <= 1
    /\ rafQueue = IF resizeRaf = 0 THEN {} ELSE {resizeRaf}

\* a frame has run its one refresh after a burst whose last resize event
\* was dropped because a callback was already pending.
C2_Witness ==
    /\ hist.lastResize = "pending"
    /\ rafQueue = {}
    /\ hist.frameRefresh = 1
    /\ container # 0 /\ engines[container].refresh = 1

\* C4: a second (or later) invocation of ngOnDestroy calls no method of any
\* engine instance, cancels no frame callback, lets no exception escape and
\* leaves every field of the component as it was.
C4_TeardownIdempotent ==
    [][ (hist.teardownCalls >= 1
           /\ hist'.teardownCalls = hist.teardownCalls + 1)
        => /\ engines' = engines
           /\ UNCHANGED <<container, initPromise, destroyed, resizeRaf,
                          rafQueue>>
           /\ hist'.cancelCalls = hist.cancelCalls
           /\ hist'.uncaught = hist.uncaught ]_vars

\* ngOnDestroy ran twice on a component whose instance was live at the first.
C4_Witness ==
    /\ hist.teardownCalls = 2
    /\ hist.teardownPc = "done"
    /\ Len(engines) = 1
    /\ engines[1].play = 1
    /\ engines[1].stop = 1
    /\ engines[1].destroy = 1

\* C5: destroyed never returns to false, and from the step that sets it on
\* this.container is null after every step.
C5_NoResurrection ==
    [][ (destroyed \/ destroyed') => (destroyed' /\ container' = 0) ]_vars

\* construction completed, a resize arrived and ngOnDestroy ran again, all
\* after destroyed was set.
C5_Witness ==
    /\ destroyed
    /\ hist.teardownPc = "tsParticles.load"
    /\ pc = "done"
    /\ Len(engines) = 1
    /\ hist.teardownCalls = 2
    /\ hist.lastResize = "noContainer"

\* C6: every invocation of ngOnDestroy ends with this.container null and
\* lets no exception escape, also when stop() or destroy() throws.
C6_TeardownSwallows ==
    [][ hist'.teardownCalls > hist.teardownCalls
        => (container' = 0 /\ ~hist'.uncaught) ]_vars

\* stop() threw in ngOnDestroy: destroy() was skipped.
C6_Witness ==
    /\ hist.releaseThrew
    /\ Len(engines) = 1
    /\ engines[1].stop = 1
    /\ engines[1].destroy = 0
    /\ container = 0

\* C7: the init sequence is started at most once, exactly once as soon as
\* ngAfterViewInit has been invoked in a browser; tsParticles.load is called
\* at most once and at most one engine instance exists.
C7_SingleInit ==
    /\ hist.initStarts <= 1
    /\ hist.loadCalls <= 1
    /\ Len(engines) <= 1
    /\ (isBrowser /\ hist.viewInitCalls >= 1) => hist.initStarts = 1
    /\ ~isBrowser => hist.initStarts = 0

\* ngAfterViewInit was invoked again after the first attempt had finished.
C7_Witness ==
    /\ isBrowser
    /\ hist.viewInitCalls >= 2
    /\ hist.loadCalls = 1
    /\ pc = "done"

\* C12: from the step that sets destroyed on, no frame callback is pending
\* and resizeRaf is null after every step, and no step calls refresh() on an
\* engine instance.
C12_TeardownCancelsRefresh ==
    [][ destroyed' =>
          /\ rafQueue' = {}
          /\ resizeRaf' = 0
          /\ \A e \in 1..Len(engines) :
                engines'[e].refresh = engines[e].refresh
          /\ \A e \in (Len(engines) + 1)..Len(engines') :
                engines'[e].refresh = 0 ]_vars

\* ngOnDestroy cancelled a pending callback before its frame, and a resize
\* event arrived afterwards.
C12_Witness ==
    /\ destroyed
    /\ hist.cancelCalls = 1
    /\ hist.lastResize = "noContainer"
    /\ Len(engines) = 1
    /\ engines[1].refresh = 0
    /\ engines[1].destroy = 1

\* construction failed: an await rejected or load resolved to no instance
ConstructionFailed == hist.outcome \in {"rejected", "undefined"}

\* on failure: no instance stored, the promise resolved to null, nothing
\* escaped the hook, and the init sequence and load were not started again.
FailedQuietly ==
    /\ container = 0
    /\ Len(engines) = 0
    /\ hist.result = "null"
    /\ ~hist.uncaught
    /\ hist.initStarts = 1
    /\ hist.loadCalls <= 1

\* C13 as stated: when construction fails, by rejection or by load resolving
\* to no instance, the failure is logged (console.error), this.container
\* stays null, the promise resolves to null and nothing is retried.
C13_FailureLogged ==
    ConstructionFailed => (hist.errors >= 1 /\ FailedQuietly)

\* C13 amended: when an await of the init sequence or tsParticles.load
\* rejects, the failure is logged once (console.error); when load resolves
\* to no instance nothing is logged; in both cases this.container stays
\* null, the promise resolves to null, no exception reaches the caller of
\* ngAfterViewInit and no second construction request is made.
C13_RejectionLogged ==
    /\ hist.outcome = "rejected" => (hist.errors = 1 /\ FailedQuietly)
    /\ hist.outcome = "undefined" => (hist.errors = 0 /\ FailedQuietly)

\* tsParticles.load resolved to no instance on a live component, and
\* ngAfterViewInit was invoked again later.
C13_Witness ==
    /\ hist.outcome = "undefined"
    /\ ~destroyed
    /\ hist.loadCalls = 1
    /\ hist.viewInitCalls = 2
    /\ hist.errors = 0

\* C14 as stated: on the Failed path and on the Aborted path (ngOnDestroy
\* before construction resolved) destroy() is called on no engine instance.
C14_OnlyActiveReleases ==
    (ConstructionFailed \/ TornDownInFlight) =>
        \A e \in 1..Len(engines) : engines[e].destroy = 0

\* C14 amended: on the Failed path there is no instance and destroy() is
\* called on nothing; on the Aborted path ngOnDestroy calls destroy() on
\* nothing, but an instance that load still produces has destroy() called
\* on it once by the continuation after the await.
C14_AbortedReleasesLateInstance ==
    /\ ConstructionFailed => Len(engines) = 0
    /\ TornDownInFlight =>
          /\ hist.teardownDestroys = 0
          /\ pc = "done" =>
                \A e \in 1..Len(engines) : engines[e].destroy = 1

\* the Aborted path with an instance produced after ngOnDestroy.
C14_Witness ==
    /\ hist.teardownPc = "tsParticles.load"
    /\ hist.outcome = "instance"
    /\ hist.teardownDestroys = 0
    /\ Len(engines) = 1
    /\ engines[1].destroy = 1

\* the awaits of InitSteps, all of them
AllSteps == { InitSteps[i] : i \in 1..Len(InitSteps) }

\* C15: tsParticles.load is issued only after every module load and both
\* registrations have resolved, rockerSmooth before rockerStep; no await of
\* the sequence is pending once load has been issued.
C15_RegisteredBeforeLoad ==
    /\ \A done \in hist.loadIssuedAt : done = AllSteps
    /\ hist.loadCalls > 0 => (hist.stepsDone = AllSteps /\ ~IsStep(pc))
    /\ "rockerStep" \in hist.stepsDone => "rockerSmooth" \in hist.stepsDone
    /\ \A i \in 1..Len(InitSteps) :
          pc = InitSteps[i] =>
             hist.stepsDone = { InitSteps[j] : j \in 1..(i - 1) }

\* the construction request is in flight.
C15_Witness ==
    /\ pc = "tsParticles.load"
    /\ hist.loadCalls = 1
    /\ hist.stepsDone = AllSteps

\* C17: an onWindowResized call made while this.container is null schedules
\* no frame callback, leaves resizeRaf null and calls no engine method.
C17_ResizeWithoutInstance ==
    [][ (hist'.resizeCalls > hist.resizeCalls /\ container = 0) =>
          /\ resizeRaf' = 0
          /\ rafQueue' = {}
          /\ nextRaf' = nextRaf
          /\ engines' = engines
          /\ container' = 0 ]_vars

\* resize events arrived before construction resolved and after it failed.
C17_Witness ==
    /\ hist.lastResize = "noContainer"
    /\ hist.resizeCalls >= 2
    /\ hist.outcome = "rejected"
    /\ ~destroyed
    /\ resizeRaf = 0

\* play() calls made so far on engine instance e (0 if it does not exist yet)
PlayCalls(es, e) == IF e \in 1..Len(es) THEN es[e].play ELSE 0

\* a step that invokes play() does so with destroyed false, before and
\* after, on the instance it stores in this.container
StartedOnlyIfLive ==
    \A e \in 1..Len(engines') :
       engines'[e].play > PlayCalls(engines, e)
          => (~destroyed /\ ~destroyed' /\ container' = e)

\* instance e was started and has not been stopped: stop() was never called
\* on it, or the call threw (line 303), which leaves the engine in whatever
\* state it was in
Playing(e) ==
    /\ engines[e].play >= 1
    /\ engines[e].stop = 0 \/ hist.stopThrew

\* ngOnDestroy has returned and construction has resolved
TornDownAndResolved == hist.teardownCalls >= 1 /\ pc = "done"

C22_ReleasedExactlyOnce ==
    /\ \A e \in 1..Len(engines) : engines[e].destroy <= 1
    /\ (TornDownAndResolved /\ ~hist.releaseThrew)
          => \A e \in 1..Len(engines) : engines[e].destroy = 1

\* ngOnDestroy ran twice, the first time while tsParticles.load was pending,
\* and the instance load then produced was released once.
C22_Witness ==
    /\ TornDownAndResolved
    /\ hist.teardownCalls = 2
    /\ hist.teardownPc = "tsParticles.load"
    /\ ~hist.releaseThrew
    /\ hist.outcome = "instance"
    /\ \A e \in 1..Len(engines) : engines[e].destroy = 1

----------------------------------------------------------------------------
(* Properties of NavigationComponent, under SpecNav                        *)

\* the items' isActive flags mark exactly the items whose target is sec
OnlyActive(sec) ==
    \A i \in DOMAIN navigationItems :
       navigationItems[i].isActive <=> (navigationItems[i].scrollTarget = sec)

\* C3 as stated: onNavigationClick on an item whose scrollTarget no selector
\* resolves logs a warning and leaves currentActiveSection as it was.
C3_UnresolvedUnchanged ==
    (nav.op = "click" /\ ~nav.found) =>
        (nav.warned /\ currentActiveSection = nav.before)

\* C3 amended: onNavigationClick on an item whose scrollTarget no selector
\* resolves logs a warning, raises no exception, and sets
\* currentActiveSection to that scrollTarget and marks that item active, as
\* for a resolvable target.
C3_UnresolvedStillActivated ==
    (nav.op = "click" /\ ~nav.found) =>
        /\ nav.warned
        /\ currentActiveSection = nav.target
        /\ OnlyActive(nav.target)

\* a click on an unresolvable target other than the current section.
C3_Witness ==
    /\ nav.op = "click"
    /\ ~nav.found
    /\ nav.warned
    /\ nav.target # nav.before

\* C8: right after onNavigationClick on an item whose target is resolvable,
\* that item's isActive is true and every other item's is false.
C8_ClickMarksOnlyTarget ==
    (nav.op = "click" /\ nav.found) => OnlyActive(nav.target)

\* a click on a section an element was found for, other than the current.
C8_Witness ==
    /\ nav.op = "click"
    /\ nav.found
    /\ nav.target = "services-section"
    /\ nav.before = "gallery-section"

\* C9: at most one scroll timer is pending; while less than ScrollDelay ms
\* have passed since the last scroll event updateActiveSection has not run
\* for it; once more than ScrollDelay ms have passed on a live component it
\* has run exactly once, and has called setActiveSection at most once.
C9_Debounce ==
    /\ Cardinality(timers) <= 1
    /\ nav.runs <= 1
    /\ nav.updates <= 1
    /\ (nav.since >= 0 /\ nav.since < 100) => nav.runs = 0
    /\ (navPhase = "live" /\ nav.since > 100) => nav.runs = 1

\* the timer ran after a burst of three scroll events.
C9_Witness ==
    /\ nav.op = "timer"
    /\ nav.burst = 3
    /\ nav.runs = 1
    /\ nav.updates = 1

\* C10: after updateActiveSection has run with scrollY below 100 the active
\* section is "top", whatever the section elements and the previous section.
C10_TopBelowThreshold ==
    (nav.op \in {"init", "timer"} /\ scrollY < 100) =>
        (currentActiveSection = "top" /\ OnlyActive("top"))

\* the timer ran at offset 99 with the viewport middle inside the gallery
\* section and another section active before.
C10_Witness ==
    /\ nav.op = "timer"
    /\ scrollY = 99
    /\ dom["gallery-section"].sel = "id"
    /\ InView(dom["gallery-section"], scrollY, innerHeight)
    /\ nav.before # "top"
    /\ currentActiveSection = "top"

\* Section s has an element "#s" whose document-relative bounds, both
\* inclusive, contain the viewport middle scrollY + innerHeight / 2.
Holds(s) ==
    /\ dom[s].sel = "id"
    /\ 2 * dom[s].top <= 2 * scrollY + innerHeight
    /\ 2 * scrollY + innerHeight <= 2 * (dom[s].top + dom[s].height)

\* C11: after updateActiveSection has run with scrollY at least 100 the
\* active section is the first of gallery-section, services-section,
\* about-me-section whose element exists and contains the viewport middle
\* (bounds inclusive), and "top" when no section does.
C11_FirstContainingSection ==
    (nav.op \in {"init", "timer"} /\ scrollY >= 100) =>
        /\ \A i \in 1..3 :
              currentActiveSection = Sections[i] <=>
                 (Holds(Sections[i]) /\ \A j \in 1..(i - 1) : ~Holds(Sections[j]))
        /\ currentActiveSection = "top" <=> \A i \in 1..3 : ~Holds(Sections[i])

\* the viewport middle lies on the shared bound of gallery and services:
\* both contain it and the gallery, first in order, wins.
C11_Witness ==
    /\ nav.op = "timer"
    /\ scrollY = 400 /\ innerHeight = 200
    /\ Holds("gallery-section") /\ Holds("services-section")
    /\ currentActiveSection = "gallery-section"

\* a step that runs updateActiveSection: ngOnInit or the scroll timer
UpdateStep ==
    \/ navPhase = "created" /\ navPhase' = "live"
    \/ timers' # timers /\ nav'.op = "timer" /\ scrollThrottle' = scrollThrottle
                         /\ navPhase' = navPhase

\* C16 as stated: when the section updateActiveSection computes equals
\* currentActiveSection, setActiveSection is not invoked.
C16_NoWriteWhenSame ==
    (nav.op \in {"init", "timer"} /\ currentActiveSection = nav.before) =>
        nav.setCalls = 0

\* C16 amended: with scrollY at least 100, updateActiveSection invokes
\* setActiveSection only if the computed section differs from
\* currentActiveSection, and otherwise leaves currentActiveSection and the
\* items as they were; with scrollY below 100 it invokes
\* setActiveSection("top") in every case, also when the section is "top".
C16_WriteOnlyOnChangeAboveTop ==
    [][ UpdateStep =>
          IF scrollY >= 100
          THEN IF currentActiveSection' = currentActiveSection
               THEN nav'.setCalls = 0 /\ navigationItems' = navigationItems
               ELSE nav'.setCalls = 1
          ELSE nav'.setCalls = 1 /\ currentActiveSection' = "top" ]_vars

\* the timer ran above the threshold and computed the section that was
\* active already.
C16_Witness ==
    /\ nav.op = "timer"
    /\ scrollY >= 100
    /\ currentActiveSection = nav.before
    /\ currentActiveSection = "services-section"
    /\ nav.setCalls = 0

\* C20: once ngOnInit has run, an item's isActive is true exactly when its
\* scrollTarget equals currentActiveSection.
C20_FlagsAgree ==
    navPhase # "created" => OnlyActive(currentActiveSection)

----------------------------------------------------------------------------
(* Properties of the rocker updaters, under SpecRocker                     *)

\* the options of the particle's rockerStep block, defaults filled in
StepLow == IF "lowDeg" \in DOMAIN shapeData.rockerStep
           THEN shapeData.rockerStep.lowDeg ELSE 0
StepHigh == IF "highDeg" \in DOMAIN shapeData.rockerStep
            THEN shapeData.rockerStep.highDeg ELSE 30
StepHoldMs == 1000 * (IF "holdSec" \in DOMAIN shapeData.rockerStep
                      THEN shapeData.rockerStep.holdSec ELSE 2)

\* C18: after an update of the stepped rocker, whose time starts at 0, the
\* rotation is the low bound when the milliseconds passed so far, modulo
\* twice the hold, are less than the hold, and the high bound otherwise: it
\* is the high bound at exactly the hold and the low bound at twice the hold.
C18_SteppedOscillation ==
    (rk.last = "step" /\ rk.wrote) =>
        /\ rotation = IF rk.stepElapsed % (2 * StepHoldMs) < StepHoldMs
                      THEN << 4 * StepLow, 0 >> ELSE << 4 * StepHigh, 0 >>
        /\ rk.stepElapsed = StepHoldMs => rotation = << 4 * StepHigh, 0 >>
        /\ rk.stepElapsed = 2 * StepHoldMs => rotation = << 4 * StepLow, 0 >>

\* the update that reaches exactly the hold duration moves the rotation
\* from the low bound to the high bound.
C18_Witness ==
    /\ rk.last = "step" /\ rk.wrote
    /\ rk.stepElapsed = StepHoldMs
    /\ rk.prev = << 4 * StepLow, 0 >>
    /\ rotation = << 4 * StepHigh, 0 >>

\* the options of the particle's rockerSmooth block, defaults filled in
SmoothMin == IF "minDeg" \in DOMAIN shapeData.rockerSmooth
             THEN shapeData.rockerSmooth.minDeg ELSE 0
SmoothMax == IF "maxDeg" \in DOMAIN shapeData.rockerSmooth
             THEN shapeData.rockerSmooth.maxDeg ELSE 30
SmoothPeriodMs == 1000 * (IF "periodSec" \in DOMAIN shapeData.rockerSmooth
                          THEN shapeData.rockerSmooth.periodSec ELSE 4)
\* the center angle (min + max) / 2, as a rotation
SmoothCenter == << 2 * (SmoothMin + SmoothMax), 0 >>

\* a smooth update made exactly one period after the particle's first
AfterOnePeriod ==
    /\ rk.last = "smooth" /\ rk.wrote
    /\ rk.sinceFirst = SmoothPeriodMs

\* C19 as stated: one full period after the first update the rotation is
\* the center angle (min + max) / 2.
C19_CenterAfterPeriod ==
    AfterOnePeriod => rotation = SmoothCenter

\* C19 amended: one full period after the first update the rotation is the
\* rotation the first update wrote; it is the center angle only if the time
\* of the first update (the random start plus the first delta) is a
\* multiple of half the period.
C19_SameAsFirstAfterPeriod ==
    AfterOnePeriod =>
        /\ rotation = rk.firstRot
        /\ rotation = SmoothCenter <=> (2 * rk.firstT) % SmoothPeriodMs = 0

\* one period after the first update, away from the center angle.
C19_Witness ==
    /\ AfterOnePeriod
    /\ rotation = rk.firstRot
    /\ rotation # SmoothCenter

----------------------------------------------------------------------------
(* Properties of the services carousel of AppComponent, under SpecApp      *)

\* C23: after ngOnInit, whatever nextService, previousService, goToService,
\* interval callbacks and toggleServicesAutoPlay have run, at most one
\* auto-play interval timer is live, it is the one servicesInterval names,
\* and a timer is live if and only if isServicesAutoPlay is true.
C23_OneTimerIffAutoPlay ==
    appPhase # "created" =>
        /\ Cardinality(intervals) <= 1
        /\ intervals \subseteq {servicesInterval}
        /\ (intervals # {}) <=> isServicesAutoPlay

\* auto-play was toggled off and on again, then the user navigated: the
\* timer was replaced each time and one is live.
C23_Witness ==
    /\ appPhase = "live"
    /\ car.op = "goTo"
    /\ car.op2 = "toggle"
    /\ isServicesAutoPlay
    /\ servicesInterval >= 3
    /\ intervals = {servicesInterval}

\* C24: currentServiceIndex stays within 0..services.length-1; nextService
\* (called by the user or by the interval callback) advances by one and
\* wraps from the last index to 0; previousService retreats by one and wraps
\* from 0 to the last index; previousService right after nextService, and
\* nextService right after previousService, restore the index.
C24_IndexWrapsAndInverts ==
    LET last == Len(services) - 1
        wasNext(o) == o \in {"next", "tick"}
    IN  /\ currentServiceIndex \in 0..last
        /\ wasNext(car.op) =>
              currentServiceIndex =
                 (IF car.before = last THEN 0 ELSE car.before + 1)
        /\ car.op = "previous" =>
              currentServiceIndex =
                 (IF car.before = 0 THEN last ELSE car.before - 1)
        /\ (car.op = "previous" /\ wasNext(car.op2))
              => currentServiceIndex = car.before2
        /\ (wasNext(car.op) /\ car.op2 = "previous")
              => currentServiceIndex = car.before2

\* the interval callback wrapped from the last service to the first and
\* previousService went back to the last.
C24_Witness ==
    /\ car.op = "previous"
    /\ car.op2 = "tick"
    /\ car.before2 = Len(services) - 1
    /\ car.before = 0
    /\ currentServiceIndex = Len(services) - 1

====
